---- MODULE Spec2Model ----
(***************************************************************************)
(* A model of src/src/packets.rs: the PacketBuffer builder over Fixed and  *)
(* Dynamic storage, and the PacketListRef / PacketRef / PacketListIterator *)
(* views that walk the packed MIDIPacketList layout.                       *)
(*                                                                         *)
(* Memory is a sequence of bytes (0..255) that starts at address           *)
(* buffer.ptr.  Multi-byte fields are stored in the byte order of the      *)
(* build targets the source supports (x86, x86_64, arm, aarch64: all       *)
(* little-endian).  A u64 is denoted by its four 16-bit limbs, least       *)
(* significant first, so that every value fits TLC's 32-bit integers.      *)
(* A panic is a call that ends with a result other than "Ok" and leaves    *)
(* the storage as the code left it at the panicking line.                  *)
(***************************************************************************)
EXTENDS Integers, Sequences, FiniteSets, TLC

VARIABLES arch, phase, buffer, log, wrapped, iterator, yielded, ret, spans

vars == <<arch, phase, buffer, log, wrapped, iterator, yielded, ret, spans>>

\* the iterator a caller holds, the views it has yielded, its latest call
iterVars == <<iterator, yielded, ret>>

(***************************************************************************)
(* Bounds of the model.                                                    *)
(***************************************************************************)
MaxCalls == 2
MaxPayloadLen == 3
MaxCapacity == 21
MaxBigCalls == 1
MaxRequests == 3
MaxRequestLen == 4

(***************************************************************************)
(* Program constants.                                                      *)
(***************************************************************************)
U16Max == 65535
HeaderSize == 4
PacketHeaderSize == 10

\* one target of each cfg group: x86_64 stands for x86 too, aarch64 for arm
Archs == {"x86_64", "aarch64"}

\* 0u64 and the timestamp of tests::packet_buffer_with_data
Timestamps == { <<0, 0, 0, 0>>, <<1800, 1286, 772, 258>> }

\* A payload is named by [pat, len]: the first len bytes of the MIDI byte
\* string pat (note on / note off messages) repeated without end.
NoteOn == <<144, 64, 127, 128, 64, 127, 145, 64>>

NoteOff == <<128, 64, 127, 129, 64, 127, 144, 64>>

Payloads == { [pat |-> q, len |-> n] : q \in {NoteOn, NoteOff}, n \in 1..MaxPayloadLen }
                \cup { [pat |-> NoteOn, len |-> 0] }

BigPayloads == { [pat |-> NoteOn, len |-> n] : n \in {1, U16Max, U16Max + 1} }

\* the bytes of every payload, computed once
Slice == [p \in Payloads \cup BigPayloads |->
            SubSeq([i \in 1..p.len |-> p.pat[((i - 1) % Len(p.pat)) + 1]], 1, p.len)]

Bytes(p) == Slice[p]

\* Values an uninitialised or caller-supplied byte may hold.
Uninit == {0, 170}

\* Addresses the allocator may hand to a Vec<u8>, and addresses of caller slices.
DynPtrs == {16, 48}
FixedPtrs == {32, 34}

Capacities == {0, 4, 5} \cup (15..MaxCapacity) \cup {2 * MaxCapacity}

BigCapacities == { HeaderSize + PacketHeaderSize + U16Max + d : d \in 0..3 }

NoView == [ty |-> "None", data |-> 0]

\* no iterator is held
NoIter == [remaining |-> 0, packet_ref |-> NoView]

\* no call was made on an iterator
NoCall == [op |-> "none", item |-> <<>>]

\* the value of a read outside the storage
OutOfBounds == 0 - 1

(***************************************************************************)
(* Integer <-> bytes, little-endian.                                       *)
(***************************************************************************)
U16Bytes(v) == << v % 256, (v \div 256) % 256 >>

U32Bytes(v) == << v % 256, (v \div 256) % 256, (v \div 65536) % 256, (v \div 16777216) % 256 >>

U64Bytes(t) == U16Bytes(t[1]) \o U16Bytes(t[2]) \o U16Bytes(t[3]) \o U16Bytes(t[4])

RoundUp4(n) == ((n + 3) \div 4) * 4

(***************************************************************************)
(* Raw memory access relative to the storage's base pointer.               *)
(***************************************************************************)
ReadByte(st, addr) ==
    LET i == addr - st.ptr + 1
    IN  IF i >= 1 /\ i <= Len(st.data) THEN st.data[i] ELSE OutOfBounds

ReadU16(st, addr) == ReadByte(st, addr) + 256 * ReadByte(st, addr + 1)

ReadU32(st, addr) ==
    ReadByte(st, addr) + 256 * ReadByte(st, addr + 1)
        + 65536 * ReadByte(st, addr + 2) + 16777216 * ReadByte(st, addr + 3)

ReadU64(st, addr) ==
    << ReadU16(st, addr), ReadU16(st, addr + 2), ReadU16(st, addr + 4), ReadU16(st, addr + 6) >>

\* ptr::copy_nonoverlapping of bytes to offset off (0-based) of the storage
CopyBytes(data, off, bytes) ==
    IF off >= Len(data) THEN data
    ELSE LET n == IF off + Len(bytes) <= Len(data) THEN Len(bytes) ELSE Len(data) - off
         IN  SubSeq(data, 1, off) \o SubSeq(bytes, 1, n) \o SubSeq(data, off + n + 1, Len(data))

(***************************************************************************)
(* Storage backends.  A storage is [kind, data, used, ptr]: data is the    *)
(* caller's slice (Fixed) or the Vec's initialised length (Dyn), used is   *)
(* FixedStorage::used (DynStorage has no such field: it stays 0), ptr is   *)
(* the address of data[0].  request returns [ok, st, off, len]: whether a  *)
(* span was returned, the storage afterwards, the span's offset in data    *)
(* and its length.                                                         *)
(***************************************************************************)
NoStorage == [kind |-> "None", data |-> <<>>, used |-> 0, ptr |-> 0]

FixedStorage(slice, addr) == [kind |-> "Fixed", data |-> slice, used |-> 0, ptr |-> addr]

DynStorage == [kind |-> "Dyn", data |-> <<>>, used |-> 0, ptr |-> 0]

\* FixedRequest without the capacity check
FixedRequestUnchecked(st, length) ==
    [ok |-> TRUE, st |-> [st EXCEPT !.used = @ + length], off |-> st.used, len |-> length]

FixedRequest(st, length) ==
    IF st.used + length < Len(st.data)
    THEN [ok |-> TRUE, st |-> [st EXCEPT !.used = @ + length], off |-> st.used,
          len |-> (st.used + length) - st.used]
    ELSE [ok |-> FALSE, st |-> st, off |-> 0, len |-> 0]

\* DynRequest that returns the whole Vec: &mut self.data[..]
DynRequestWhole(st, length, fill, newptr) ==
    [ok |-> TRUE,
     st |-> [st EXCEPT !.data = @ \o [i \in 1..length |-> fill], !.ptr = newptr],
     off |-> 0,
     len |-> Len(st.data) + length]

\* reserve may move the Vec (newptr); set_len exposes `length` bytes that
\* were never written (fill).
DynRequest(st, length, fill, newptr) ==
    [ok |-> TRUE,
     st |-> [st EXCEPT !.data = @ \o [i \in 1..length |-> fill], !.ptr = newptr],
     off |-> Len(st.data),
     len |-> (Len(st.data) + length) - Len(st.data)]

Request(st, length, fill, newptr) ==
    IF st.kind = "Fixed" THEN FixedRequest(st, length)
    ELSE DynRequest(st, length, fill, newptr)

\* the number of bytes the storage has handed out
Cursor(st) == IF st.kind = "Fixed" THEN st.used ELSE Len(st.data)

(***************************************************************************)
(* PacketBuffer.                                                           *)
(***************************************************************************)
\* PacketBuffer::new_with_buf: [st, result]
NewWithBuf(st, fill, newptr) ==
    LET r == Request(st, HeaderSize, fill, newptr)
    IN  IF ~r.ok THEN [st |-> r.st, result |-> "BufferTooSmall"]
        ELSE LET w == [r.st EXCEPT !.data = CopyBytes(@, r.off, U32Bytes(0))]
             IN  IF w.ptr % 4 # 0
                 THEN [st |-> w, result |-> "BufferMisaligned"]
                 ELSE [st |-> w, result |-> "Ok"]

\* PayloadFits with < for <=
PayloadFitsStrict(packet) == Len(packet) < U16Max

\* assert!(packet.len() <= u16::max_value() as usize)
PayloadFits(packet) == Len(packet) <= U16Max

\* ReqSize without the rounding of the arm targets
ReqSizeUnrounded(len) == PacketHeaderSize + len

\* req_size, with the cfg(target_arch) rounding
ReqSize(len) ==
    IF arch = "aarch64" THEN RoundUp4(PacketHeaderSize + len) ELSE PacketHeaderSize + len

\* the three copy_nonoverlapping calls up to the point where &packet[0] is
\* evaluated: timestamp and length are written before the payload is indexed
WriteHeader(data, off, timestamp, packet) ==
    CopyBytes(CopyBytes(data, off, U64Bytes(timestamp)),
              off + 8, U16Bytes(Len(packet) % 65536))

\* WritePayload that starts at the length field's end minus one
WritePayloadEarly(data, off, packet) == CopyBytes(data, off + PacketHeaderSize - 1, packet)

WritePayload(data, off, packet) == CopyBytes(data, off + PacketHeaderSize, packet)

\* IncrementCount that leaves the header alone
IncrementCountSkipped(st) == st

\* *(self.buffer.ptr_mut() as *mut u32) += 1
IncrementCount(st) ==
    [st EXCEPT !.data = CopyBytes(@, 0, U32Bytes(ReadU32(st, st.ptr) + 1))]

\* PacketBuffer::push_packet: [st, result, at, req]
PushPacket(st, timestamp, packet, fill, newptr) ==
    IF ~PayloadFits(packet)
    THEN [st |-> st, result |-> "PayloadTooLarge", at |-> 0, req |-> 0]
    ELSE
    LET req_size == ReqSize(Len(packet))
        r == Request(st, req_size, fill, newptr)
    IN  IF ~r.ok
        THEN [st |-> r.st, result |-> "BufferTooSmall", at |-> 0, req |-> req_size]
        ELSE
        LET h == [r.st EXCEPT !.data = WriteHeader(@, r.off, timestamp, packet)]
        IN  IF Len(packet) = 0
            THEN [st |-> h, result |-> "IndexOutOfBounds", at |-> r.off, req |-> req_size]
            ELSE [st |-> IncrementCount([h EXCEPT !.data = WritePayload(@, r.off, packet)]),
                  result |-> "Ok", at |-> r.off, req |-> req_size]

(***************************************************************************)
(* Views.  A view is [ty, data]: the struct it is and the address it holds.*)
(***************************************************************************)
PacketRef(addr) == [ty |-> "PacketRef", data |-> addr]

PacketListRef(addr) == [ty |-> "PacketListRef", data |-> addr]

\* PacketBuffer::as_ref
as_ref(st) == PacketListRef(st.ptr)

\* PacketListRef::as_ptr
as_ptr(view) == view.data

\* PacketListRef::from_ptr
from_ptr(ptr) == PacketRef(ptr)

\* PacketListRef::length
length(st, view) == ReadU32(st, view.data)

\* PacketRef::timestamp
timestamp(st, p) == ReadU64(st, p.data)

\* PacketRef::data_length
data_length(st, p) == ReadU16(st, p.data + 8)

\* PacketRef::data
data(st, p) ==
    LET n == data_length(st, p)
        lo == p.data + PacketHeaderSize - st.ptr + 1
    IN  IF lo >= 1 /\ lo + n - 1 <= Len(st.data)
        THEN SubSeq(st.data, lo, lo + n - 1)
        ELSE [i \in 1..n |-> ReadByte(st, p.data + PacketHeaderSize + i - 1)]

\* PacketRefNext that rounds on every build target
PacketRefNextAligned(st, p) ==
    PacketRef(RoundUp4(p.data + PacketHeaderSize + data_length(st, p)))

\* PacketRef::next
PacketRefNext(st, p) ==
    LET unadjusted == p.data + PacketHeaderSize + data_length(st, p)
    IN  IF arch = "aarch64" THEN PacketRef(RoundUp4(unadjusted)) ELSE PacketRef(unadjusted)

\* PacketListRef::iter
iter(st, view) == [remaining |-> length(st, view), packet_ref |-> PacketRef(view.data + HeaderSize)]

\* IteratorNext that does not test remaining
IteratorNextUnbounded(st, i) ==
    [it |-> [remaining |-> IF i.remaining > 0 THEN i.remaining - 1 ELSE 0,
             packet_ref |-> PacketRefNext(st, i.packet_ref)],
     item |-> <<i.packet_ref>>]

\* PacketListIterator::next: [it, item], item = <<>> for None, <<p>> for Some(p)
IteratorNext(st, it) ==
    IF it.remaining > 0
    THEN [it |-> [remaining |-> it.remaining - 1,
                  packet_ref |-> PacketRefNext(st, it.packet_ref)],
          item |-> <<it.packet_ref>>]
    ELSE [it |-> it, item |-> <<>>]

\* the views a `for packet in list.iter()` loop sees, in order
RECURSIVE Collect(_, _)
Collect(st, it) ==
    LET r == IteratorNext(st, it)
    IN  IF r.item = <<>> THEN <<>> ELSE r.item \o Collect(st, r.it)

Views(st) == Collect(st, iter(st, as_ref(st)))

\* what the caller reads from each view
Event(st, p) == [ts |-> timestamp(st, p), data |-> data(st, p)]

Decoded(st) == LET v == Views(st) IN [k \in 1..Len(v) |-> Event(st, v[k])]

(***************************************************************************)
(* The state machine.  log records every push_packet call: its timestamp,  *)
(* the name of its payload, its result, the storage cursor before it, the  *)
(* size it requested and the offset of the span the storage returned.      *)
(***************************************************************************)
Init ==
    /\ arch \in Archs
    /\ phase = "new"
    /\ buffer = NoStorage
    /\ log = <<>>
    /\ wrapped = NoView
    /\ iterator = NoIter
    /\ yielded = <<>>
    /\ ret = NoCall
    /\ spans = <<>>

\* PacketBuffer::dyn()
Dyn ==
    /\ phase = "new"
    /\ \E fill \in Uninit, newptr \in DynPtrs :
         LET r == NewWithBuf(DynStorage, fill, newptr)
         IN  /\ buffer' = r.st
             /\ phase' = r.result
    /\ UNCHANGED <<arch, log, wrapped, iterVars, spans>>

\* PacketBuffer::fixed(data)
Fixed(slice, addr) ==
    /\ phase = "new"
    /\ LET r == NewWithBuf(FixedStorage(slice, addr), 0, addr)
       IN  /\ buffer' = r.st
           /\ phase' = r.result
    /\ UNCHANGED <<arch, log, wrapped, iterVars, spans>>

\* buffer.push_packet(timestamp, packet); no view is live across an append
Push(ts, packet) ==
    /\ phase = "Ok"
    /\ wrapped = NoView
    /\ iterator = NoIter
    /\ \E fill \in Uninit, newptr \in DynPtrs :
         LET r == PushPacket(buffer, ts, Bytes(packet), fill, newptr)
         IN  /\ buffer' = r.st
             /\ log' = Append(log, [ts |-> ts, packet |-> packet, result |-> r.result,
                                    used |-> Cursor(buffer), req |-> r.req, at |-> r.at])
    /\ UNCHANGED <<arch, phase, wrapped, iterVars, spans>>

\* PacketListRef::from_ptr(buffer.as_ref().as_ptr()): the bytes the boundary
\* delivers are those of a builder, wrapped in place
FromPtr ==
    /\ phase = "Ok"
    /\ wrapped = NoView
    /\ wrapped' = from_ptr(as_ptr(as_ref(buffer)))
    /\ UNCHANGED <<arch, phase, buffer, log, iterVars, spans>>

Slices(caps) == { [i \in 1..c |-> f] : c \in caps, f \in Uninit }

Next ==
    \/ Dyn
    \/ \E slice \in Slices(Capacities), addr \in FixedPtrs : Fixed(slice, addr)
    \/ /\ Len(log) < MaxCalls
       /\ \E ts \in Timestamps, packet \in Payloads : Push(ts, packet)
    \/ FromPtr

Spec == Init /\ [][Next]_vars

\* the same program driven with payloads around the u16 limit
NextBig ==
    \/ Dyn
    \/ \E slice \in Slices(BigCapacities), addr \in FixedPtrs : Fixed(slice, addr)
    \/ /\ Len(log) < MaxBigCalls
       /\ \E ts \in Timestamps, packet \in BigPayloads : Push(ts, packet)
    \/ FromPtr

SpecBig == Init /\ [][NextBig]_vars

(***************************************************************************)
(* A storage on its own, as fixed() and dyn() construct it before          *)
(* new_with_buf makes its first request, driven by request(length) calls.  *)
(* spans records every call: the length asked for, whether a span was      *)
(* returned, and the returned span's offset and length.                    *)
(***************************************************************************)
InitStorage ==
    /\ arch \in Archs
    /\ phase = "storage"
    /\ buffer \in {DynStorage} \cup
                 { FixedStorage(slice, addr) : slice \in Slices(Capacities), addr \in FixedPtrs }
    /\ log = <<>>
    /\ wrapped = NoView
    /\ iterator = NoIter
    /\ yielded = <<>>
    /\ ret = NoCall
    /\ spans = <<>>

\* storage.request(length)
StorageRequest(size) ==
    /\ phase = "storage"
    /\ \E fill \in Uninit, newptr \in DynPtrs :
         LET r == Request(buffer, size, fill, newptr)
         IN  /\ buffer' = r.st
             /\ spans' = Append(spans, [length |-> size, ok |-> r.ok,
                                        off |-> r.off, len |-> r.len])
    /\ UNCHANGED <<arch, phase, log, wrapped, iterVars>>

NextStorage ==
    /\ Len(spans) < MaxRequests
    /\ \E size \in 0..MaxRequestLen : StorageRequest(size)

SpecStorage == InitStorage /\ [][NextStorage]_vars

(***************************************************************************)
(* The iterator, one call at a time.  iterator is the PacketListIterator   *)
(* the caller holds, yielded the views its next() calls returned so far,   *)
(* ret the latest call on it and the Option that call returned.  The       *)
(* iterator borrows the buffer: no push happens before it is dropped.      *)
(***************************************************************************)
\* let iter = buffer.as_ref().iter()
Iter ==
    /\ phase = "Ok"
    /\ wrapped = NoView
    /\ iterator' = iter(buffer, as_ref(buffer))
    /\ yielded' = <<>>
    /\ ret' = [op |-> "iter", item |-> <<>>]
    /\ UNCHANGED <<arch, phase, buffer, log, wrapped, spans>>

\* iter.next()
IterNext ==
    /\ iterator # NoIter
    /\ LET r == IteratorNext(buffer, iterator)
       IN  /\ iterator' = r.it
           /\ yielded' = yielded \o r.item
           /\ ret' = [op |-> "next", item |-> r.item]
    /\ UNCHANGED <<arch, phase, buffer, log, wrapped, spans>>

\* the iterator goes out of scope
IterDrop ==
    /\ iterator # NoIter
    /\ iterator' = NoIter
    /\ yielded' = <<>>
    /\ ret' = NoCall
    /\ UNCHANGED <<arch, phase, buffer, log, wrapped, spans>>

NextIter ==
    \/ Dyn
    \/ \E slice \in Slices(Capacities), addr \in FixedPtrs : Fixed(slice, addr)
    \/ /\ Len(log) < MaxCalls
       /\ \E ts \in Timestamps, packet \in Payloads : Push(ts, packet)
    \/ Iter
    \/ IterNext
    \/ IterDrop

SpecIter == Init /\ [][NextIter]_vars

(***************************************************************************)
(* Vocabulary of the properties.                                           *)
(***************************************************************************)
Built == phase = "Ok"

Calls == 1..Len(log)

OkCalls == { i \in Calls : log[i].result = "Ok" }

\* the arguments of a call, as an event
Args(e) == [ts |-> e.ts, data |-> Bytes(e.packet)]

\* the successful calls, in call order
Pushed == LET ok == SelectSeq(log, LAMBDA e : e.result = "Ok")
          IN  [k \in 1..Len(ok) |-> Args(ok[k])]

\* the size of a record under the layout policy of the build target
RecordSize(len) ==
    IF arch = "aarch64" THEN 4 * ((10 + len + 3) \div 4) ELSE 10 + len

Capacity == Len(buffer.data)

Count(st) == length(st, as_ref(st))

(***************************************************************************)
(* C1: for every sequence of (timestamp, data) pairs with 0 <= length <=   *)
(* 65535 pushed onto a fresh buffer whose storage had room for each,       *)
(* iterating as_ref().iter() yields one view per push, in push order, with *)
(* the pushed timestamp and payload.                                       *)
(***************************************************************************)
C1_IterationYieldsEveryPush ==
    (Built /\ \A i \in Calls : log[i].packet.len <= U16Max /\ log[i].result # "BufferTooSmall")
        => Decoded(buffer) = [k \in Calls |-> Args(log[k])]

(***************************************************************************)
(* C2: in every reachable state of a PacketBuffer the count header read by *)
(* as_ref().length() is the number of push_packet calls that completed     *)
(* successfully: 0 when fresh, one more after each successful push.        *)
(***************************************************************************)
C2_CountIsSuccessfulPushes ==
    Built => Count(buffer) = Cardinality(OkCalls)

C2_Witness ==
    /\ Built
    /\ Len(log) = 2
    /\ log[1].result = "IndexOutOfBounds"
    /\ log[2].result = "Ok"
    /\ Count(buffer) = 1

(***************************************************************************)
(* C3: on Fixed storage a push of a record that would exceed the remaining *)
(* capacity fails with BufferFull (the "BufferTooSmall" panic), and the    *)
(* count header, all bytes of the batch and the views iteration yields are *)
(* what they were before the call.                                         *)
(***************************************************************************)
C3_FullPushChangesNothing ==
    [][ (/\ Len(log') = Len(log) + 1
         /\ buffer.kind = "Fixed"
         /\ log'[Len(log')].packet.len <= U16Max
         /\ buffer.used + RecordSize(log'[Len(log')].packet.len) > Capacity)
        => /\ log'[Len(log')].result = "BufferTooSmall"
           /\ Count(buffer') = Count(buffer)
           /\ buffer'.data = buffer.data
           /\ Decoded(buffer') = Decoded(buffer) ]_vars

C3_Witness ==
    /\ Built
    /\ buffer.kind = "Fixed"
    /\ Len(log) = 2
    /\ log[1].result = "Ok"
    /\ log[2].result = "BufferTooSmall"
    /\ log[2].used + RecordSize(log[2].packet.len) > Capacity
    /\ Decoded(buffer) = <<Args(log[1])>>

(***************************************************************************)
(* C4: Fixed storage's request(length) fails exactly when used + length    *)
(* would exceed the capacity; a construction or a push whose bytes exactly *)
(* fill the remaining capacity succeeds.                                   *)
(***************************************************************************)
C4_RequestFailsOnlyBeyondCapacity ==
    buffer.kind = "Fixed" =>
        /\ (phase = "BufferTooSmall") = (HeaderSize > Capacity)
        /\ \A i \in Calls :
             log[i].packet.len <= U16Max =>
                (log[i].result = "BufferTooSmall")
                    = (log[i].used + RecordSize(log[i].packet.len) > Capacity)

(***************************************************************************)
(* C5: push_packet accepts a payload of exactly 65535 bytes when the       *)
(* storage grants the request, and the record's data_length() is 65535; a  *)
(* payload of 65536 bytes or more is rejected with PayloadTooLarge (the    *)
(* failed assertion) before anything is requested from storage or written, *)
(* and is never stored with a truncated length.                            *)
(***************************************************************************)
C5_PayloadLimit ==
    [][ Len(log') = Len(log) + 1 =>
          LET e == log'[Len(log')]
              v == Views(buffer')
          IN  /\ (e.packet.len = U16Max /\ e.result # "BufferTooSmall") =>
                    /\ e.result = "Ok"
                    /\ Len(v) = Len(Views(buffer)) + 1
                    /\ data_length(buffer', v[Len(v)]) = U16Max
                    /\ data(buffer', v[Len(v)]) = Bytes(e.packet)
              /\ e.packet.len > U16Max =>
                    /\ e.result = "PayloadTooLarge"
                    /\ e.req = 0
                    /\ buffer' = buffer ]_vars

C5_Witness ==
    /\ Built
    /\ \E i \in Calls : log[i].packet.len = U16Max /\ log[i].result = "Ok"
    /\ LET v == Views(buffer) IN Len(v) >= 1 /\ data_length(buffer, v[Len(v)]) = U16Max

(***************************************************************************)
(* C6: under the Packed policy, after construction and successful pushes   *)
(* (t1,d1)..(tn,dn) on Dynamic storage the buffer is exactly the 4-byte    *)
(* count n, then for each i the 8-byte ti, the 2-byte length of di and the *)
(* bytes of di; its length is 4 + sum(10 + len(di)); a fresh buffer is     *)
(* four zero bytes and one push of a 3-byte payload gives 17 bytes.        *)
(***************************************************************************)
RECURSIVE LittleEndian(_, _)
LittleEndian(v, n) == IF n = 0 THEN <<>> ELSE <<v % 256>> \o LittleEndian(v \div 256, n - 1)

PackedRecord(e) ==
    LittleEndian(e.ts[1], 2) \o LittleEndian(e.ts[2], 2) \o LittleEndian(e.ts[3], 2)
        \o LittleEndian(e.ts[4], 2) \o LittleEndian(e.packet.len, 2) \o Bytes(e.packet)

RECURSIVE PackedRecords(_)
PackedRecords(es) ==
    IF es = <<>> THEN <<>> ELSE PackedRecord(Head(es)) \o PackedRecords(Tail(es))

RECURSIVE PackedLength(_)
PackedLength(es) ==
    IF es = <<>> THEN 4 ELSE PackedLength(Tail(es)) + 10 + Head(es).packet.len

C6_PackedBytes ==
    (Built /\ arch = "x86_64" /\ buffer.kind = "Dyn" /\ OkCalls = Calls) =>
        /\ buffer.data = LittleEndian(Len(log), 4) \o PackedRecords(log)
        /\ Len(buffer.data) = PackedLength(log)
        /\ log = <<>> => buffer.data = <<0, 0, 0, 0>>
        /\ (Len(log) = 1 /\ log[1].packet.len = 3) => Len(buffer.data) = 17
        /\ (Len(log) = 1 /\ log[1].ts = <<1800, 1286, 772, 258>>
                /\ Bytes(log[1].packet) = <<144, 64, 127>>)
              => buffer.data = <<1, 0, 0, 0, 8, 7, 6, 5, 4, 3, 2, 1, 3, 0, 144, 64, 127>>

C6_Witness ==
    /\ Built /\ arch = "x86_64" /\ buffer.kind = "Dyn"
    /\ Len(log) = 2 /\ OkCalls = Calls
    /\ log[1].ts = <<1800, 1286, 772, 258>> /\ Bytes(log[1].packet) = <<144, 64, 127>>
    /\ Len(buffer.data) = 17 + 10 + log[2].packet.len

(***************************************************************************)
(* C7: when no call consumed storage without completing, every record      *)
(* starts at an offset consistent with the layout policy: the first at 4;  *)
(* under Aligned4 each start is a multiple of 4 and the next record starts *)
(* at the previous start + 10 + length rounded up to a multiple of 4;      *)
(* under Packed it starts at the previous start + 10 + length, no gap.     *)
(* The offsets are those the builder wrote at and those the iterator       *)
(* visits.                                                                 *)
(***************************************************************************)
Starts == LET ok == SelectSeq(log, LAMBDA e : e.result = "Ok")
          IN  [k \in 1..Len(ok) |-> ok[k].at]

Visited == LET v == Views(buffer) IN [k \in 1..Len(v) |-> v[k].data - buffer.ptr]

C7_RecordOffsets ==
    (Built /\ \A i \in Calls : log[i].result # "IndexOutOfBounds") =>
        /\ Visited = Starts
        /\ Len(Pushed) = Len(Starts)
        /\ \A k \in 1..Len(Starts) :
             /\ k = 1 => Starts[k] = 4
             /\ arch = "aarch64" => Starts[k] % 4 = 0
             /\ k > 1 =>
                  LET end == Starts[k - 1] + 10 + Len(Pushed[k - 1].data)
                  IN  IF arch = "aarch64"
                      THEN Starts[k] = 4 * ((end + 3) \div 4)
                      ELSE Starts[k] = end

C7_Witness ==
    /\ Built /\ arch = "aarch64"
    /\ Len(log) = 2 /\ OkCalls = Calls
    /\ log[1].packet.len = 3 /\ log[2].packet.len = 1
    /\ Visited = <<4, 20>>

(***************************************************************************)
(* C8: round trip.  For a batch built by successful pushes, pushing each   *)
(* decoded (timestamp(), data()) in order into a fresh buffer of the same  *)
(* storage kind under the same layout policy gives used bytes identical to *)
(* the original's, padding included, whatever the fresh storage held.      *)
(***************************************************************************)
UsedBytes(st) == SubSeq(st.data, 1, Cursor(st))

Fresh(st, fill) ==
    IF st.kind = "Fixed"
    THEN NewWithBuf(FixedStorage([i \in 1..Len(st.data) |-> fill], st.ptr), fill, st.ptr).st
    ELSE NewWithBuf(DynStorage, fill, st.ptr).st

RECURSIVE PushAll(_, _, _)
PushAll(st, events, fill) ==
    IF events = <<>> THEN st
    ELSE PushAll(PushPacket(st, Head(events).ts, Head(events).data, fill, st.ptr).st,
                 Tail(events), fill)

C8_RoundTrip ==
    (Built /\ OkCalls = Calls) =>
        \A fill \in Uninit :
            UsedBytes(PushAll(Fresh(buffer, fill), Decoded(buffer), fill)) = UsedBytes(buffer)

(***************************************************************************)
(* C9: PacketListRef::from_ptr on a well-formed packed buffer yields a     *)
(* List View over that buffer, not a copy: its length() is the count       *)
(* header, its iteration starts at offset 4 and yields the views that      *)
(* as_ref() of a builder holding the same bytes yields.                    *)
(***************************************************************************)
C9_FromPtrIsListView ==
    wrapped # NoView =>
        /\ wrapped.ty = "PacketListRef"
        /\ wrapped.data = buffer.ptr
        /\ length(buffer, wrapped) = Cardinality(OkCalls)
        /\ iter(buffer, wrapped).packet_ref.data = buffer.ptr + 4
        /\ Collect(buffer, iter(buffer, wrapped)) = Views(buffer)

(***************************************************************************)
(* C10: a push_packet call that does not complete successfully, whatever   *)
(* the cause, the storage kind and the payload length, leaves the count    *)
(* header and the storage's used-bytes cursor as they were before it.      *)
(***************************************************************************)
C10_FailedPushConsumesNothing ==
    [][ (Len(log') = Len(log) + 1 /\ log'[Len(log')].result # "Ok")
        => /\ Count(buffer') = Count(buffer)
           /\ Cursor(buffer') = Cursor(buffer) ]_vars

(***************************************************************************)
(* C11: an iterator obtained from iter() on a list view starts with        *)
(* remaining = length() and its cursor at offset 4; each next() while      *)
(* remaining > 0 yields one record view (the one under the cursor) and     *)
(* decrements remaining by exactly 1, so that the views yielded plus       *)
(* remaining always make length() and an exhausted iterator has yielded    *)
(* exactly length() views; once remaining = 0 a further next() yields      *)
(* nothing and changes neither the iterator nor the buffer; the cursor     *)
(* moves back (to offset 4) only by a fresh iter() call.                   *)
(***************************************************************************)
Held == iterator # NoIter

IterStarts ==
    ret'.op = "iter" =>
        /\ iterator'.remaining = Count(buffer)
        /\ iterator'.packet_ref = [ty |-> "PacketRef", data |-> buffer.ptr + 4]
        /\ yielded' = <<>>

NextYields ==
    (Held /\ ret'.op = "next" /\ iterator.remaining > 0) =>
        /\ ret'.item = <<iterator.packet_ref>>
        /\ iterator.packet_ref.ty = "PacketRef"
        /\ iterator'.remaining = iterator.remaining - 1
        /\ yielded' = Append(yielded, iterator.packet_ref)

NextExhausted ==
    (Held /\ ret'.op = "next" /\ iterator.remaining = 0) =>
        /\ ret'.item = <<>>
        /\ iterator' = iterator
        /\ yielded' = yielded
        /\ buffer' = buffer

OnlyIterRewinds ==
    (Held /\ iterator' # NoIter /\ iterator'.packet_ref.data < iterator.packet_ref.data) =>
        /\ ret'.op = "iter"
        /\ iterator'.packet_ref.data = buffer.ptr + 4

YieldedInTotal ==
    Held => /\ Len(yielded) + iterator.remaining = Count(buffer)
            /\ iterator.remaining >= 0

C11_IteratorWalk ==
    /\ []YieldedInTotal
    /\ [][IterStarts /\ NextYields /\ NextExhausted /\ OnlyIterRewinds]_vars

C11_Witness ==
    /\ Held /\ Count(buffer) = 2
    /\ iterator.remaining = 0 /\ Len(yielded) = 2
    /\ ret = [op |-> "next", item |-> <<>>]

(***************************************************************************)
(* C12: for Fixed and Dynamic storage and any sequence of request(length)  *)
(* calls, each successful request returns a span of exactly the requested  *)
(* length whose offset is the sum of the lengths of all earlier successful *)
(* requests, inside the storage's bytes; hence spans are contiguous and    *)
(* pairwise disjoint.  Dynamic storage never fails a request.              *)
(***************************************************************************)
RECURSIVE HandedOut(_)
HandedOut(k) ==
    IF k = 0 THEN 0
    ELSE HandedOut(k - 1) + (IF spans[k].ok THEN spans[k].length ELSE 0)

C12_SpansContiguous ==
    phase = "storage" =>
        /\ \A k \in 1..Len(spans) :
             spans[k].ok =>
                /\ spans[k].len = spans[k].length
                /\ spans[k].off = HandedOut(k - 1)
                /\ spans[k].off + spans[k].len <= Len(buffer.data)
                /\ \A j \in 1..(k - 1) :
                     spans[j].ok => spans[j].off + spans[j].len <= spans[k].off
        /\ buffer.kind = "Dyn" => \A k \in 1..Len(spans) : spans[k].ok

C12_Witness ==
    /\ phase = "storage" /\ buffer.kind = "Fixed"
    /\ Len(spans) = 3
    /\ spans[1].ok /\ spans[1].length = 2
    /\ ~spans[2].ok
    /\ spans[3].ok /\ spans[3].off = 2 /\ spans[3].len = 1

(***************************************************************************)
(* C13: for a buffer made by construction and pushes none of which         *)
(* consumed storage without completing, under either layout policy, every  *)
(* record view an iterator over as_ref() yields sits at the offset where   *)
(* the builder wrote that record, and its 10-byte header and its           *)
(* data_length() data bytes lie inside the bytes the storage handed out,   *)
(* from offset 4 up to the used cursor.  The record whose length field the *)
(* next call of next() reads lies inside them too, and the iterator's      *)
(* cursor never passes the used cursor, after the last record included.    *)
(***************************************************************************)
Offset(p) == p.data - buffer.ptr

InsideWritten(p) ==
    /\ HeaderSize <= Offset(p)
    /\ Offset(p) + PacketHeaderSize + data_length(buffer, p) <= Cursor(buffer)

C13_IterationStaysInside ==
    (Held /\ \A i \in Calls : log[i].result # "IndexOutOfBounds") =>
        /\ Len(yielded) <= Len(Starts)
        /\ \A k \in 1..Len(yielded) :
             /\ Offset(yielded[k]) = Starts[k]
             /\ InsideWritten(yielded[k])
        /\ iterator.remaining > 0 => InsideWritten(iterator.packet_ref)
        /\ Offset(iterator.packet_ref) <= Cursor(buffer)
        /\ Cursor(buffer) <= Len(buffer.data)

C13_Witness ==
    /\ Held /\ arch = "aarch64" /\ buffer.kind = "Fixed"
    /\ OkCalls = Calls /\ Len(log) = 2 /\ log[1].packet.len = 3
    /\ iterator.remaining = 0
    /\ Len(yielded) = 2 /\ Offset(yielded[2]) = 20
    /\ Offset(iterator.packet_ref) = Cursor(buffer)

====
